---- MODULE Spec2Model ----
(***************************************************************************)
(* Model of the ultralytics module replacers                               *)
(* (tutorials/quick_start/pytorch_fw/ultralytics_lib/replacers.py) and of  *)
(* the tensor conversion helpers                                           *)
(* (model_compression_toolkit/core/pytorch/utils.py).                      *)
(*                                                                         *)
(* A module is a record.  A Conv block is the sequence of its children     *)
(* (its first child is the convolution layer, a record with in_channels,   *)
(* out_channels and groups); an empty sequence is a block without          *)
(* children, on which next(x.children()) raises StopIteration.             *)
(***************************************************************************)
EXTENDS Integers, Sequences, FiniteSets, TLC

VARIABLES
    tree,       \* the model: its top-level children and their children
    yaml,       \* the architecture the model was parsed from
    before,     \* the tree when the last replacer call began
    lastCall,   \* the last replacer call and how it ended
    host,       \* a structure of Numpy arrays
    dev,        \* to_torch_tensor(host), once computed
    back,       \* torch_tensor_to_numpy(dev), once computed
    yolo,       \* a YOLOReplacer object: overrides, task, model
    valCall,    \* the last call of val: its kwargs and the args it resolved
    head,       \* a detection or segmentation head, its mode and its input
    fout,       \* what the replaced head's forward returned
    frec,       \* what the validator's postprocess rebuilt from fout
    forig       \* what the head it replaces returns on the same input

replaceVars == <<tree, yaml, before, lastCall>>
bridgeVars == <<host, dev, back>>
valVars == <<yolo, valCall>>
forwardVars == <<head, fout, frec, forig>>

vars == <<tree, yaml, before, lastCall, host, dev, back, yolo, valCall,
          head, fout, frec, forig>>

\* ------------------------------------------------------------------------
\* Bounds
\* ------------------------------------------------------------------------

\* Largest number of depth-2 modules of a model.
MaxNodes == 3

\* Largest number of members of a list or tuple of arrays.
MaxLen == 2

\* ------------------------------------------------------------------------
\* Program constants
\* ------------------------------------------------------------------------

\* 4 * reg_max, the number of box channels of a Detect head ("in_ch = 64 + nc").
BoxCh == 64

\* DEFAULT_CFG.imgsz.
DefaultImgsz == 640

\* The stride check_imgsz rounds to.
ImgszStride == 32

\* ------------------------------------------------------------------------
\* Class hierarchy and isinstance
\* ------------------------------------------------------------------------

\* The direct base class of each class of the file ("object" ends the chain).
Base(t) ==
    CASE t = "C2fReplacer" -> "C2f"
      [] t = "DetectReplacer" -> "Detect"
      [] t = "Segment" -> "Detect"
      [] t = "SegmentReplacer" -> "Segment"
      [] OTHER -> "object"

RECURSIVE IsInstance(_, _)
IsInstance(t, cls) ==
    IF t = cls THEN TRUE
    ELSE IF t = "object" THEN FALSE
    ELSE IsInstance(Base(t), cls)

\* ------------------------------------------------------------------------
\* Exceptions
\* ------------------------------------------------------------------------

NoErr == [kind |-> "none", args |-> <<>>]

\* What next() raises on an exhausted iterator: StopIteration without arguments.
StopIteration == [kind |-> "StopIteration", args |-> <<>>]

\* ------------------------------------------------------------------------
\* Module constructors
\* ------------------------------------------------------------------------

ConvLayer(cin, cout, g) == [in_channels |-> cin, out_channels |-> cout, groups |-> g]

\* Conv(c1, c2, g=g): a block whose first child is the convolution layer.
Conv(cin, cout, g) == <<ConvLayer(cin, cout, g)>>

\* Bottleneck(c1, c2, shortcut, g, e=1.0): cv1 = Conv(c1, c_), cv2 = Conv(c_, c2, g=g),
\* add = shortcut and c1 == c2.
Bottleneck(c1, c2, shortcut, g) ==
    [add |-> shortcut /\ c1 = c2, kids |-> <<Conv(c1, c2, 1), Conv(c2, c2, g)>>]

\* The fields of a module that the file never reads default to these.
BlankNode ==
    [type |-> "object", f |-> <<>>, i |-> -1, tname |-> "", w |-> "init",
     c |-> 0, cv1 |-> <<>>, cv2 |-> <<>>, m |-> <<>>,
     nc |-> 0, nm |-> 0, npr |-> 0, dcv2 |-> <<>>, sub |-> <<>>]

\* int(c2 * e) with the ratio e kept as the pair <<numerator, denominator>>
\* (exact for the ratios used here, whose float is exact).
IntMul(c2, e) == (c2 * e[1]) \div e[2]

\* C2f.__init__(c1, c2, n, shortcut, g, e), run by cls(*config): freshly
\* initialised weights, no f / i / type attribute yet.
C2fInit(cls, config) ==
    LET c1 == config[1]
        c2 == config[2]
        n == config[3]
        shortcut == config[4]
        g == config[5]
        e == config[6]
        c == IntMul(c2, e)
    IN  [BlankNode EXCEPT !.type = cls, !.w = "init", !.c = c,
                          !.cv1 = Conv(c1, 2 * c, 1),
                          !.cv2 = Conv((2 + n) * c, c2, 1),
                          !.m = [k \in 1..n |-> Bottleneck(c, c, shortcut, g)]]

Max(S) == CHOOSE x \in S : \A y \in S : y <= x

\* One branch of Detect.cv2: Sequential(Conv(x, c2, 3), Conv(c2, c2, 3), Conv2d(c2, 4 * reg_max, 1));
\* the last child is a bare layer and has no children.
DetectBranch(x, c2) == <<Conv(x, c2, 1), Conv(c2, c2, 1), <<>>>>

\* Detect.__init__(nc, ch), run by cls(*config).
DetectInit(cls, config) ==
    LET nc == config[1]
        ch == config[2]
        c2 == Max({16, ch[1] \div 4, BoxCh})
    IN  [BlankNode EXCEPT !.type = cls, !.w = "init", !.nc = nc,
                          !.dcv2 = [k \in 1..Len(ch) |-> DetectBranch(ch[k], c2)]]

\* Segment.__init__(nc, nm, npr, ch), run by cls(*config).
SegmentInit(cls, config) ==
    LET nc == config[1]
        nm == config[2]
        npr == config[3]
        ch == config[4]
    IN  [DetectInit(cls, <<nc, ch>>) EXCEPT !.nm = nm, !.npr = npr]

\* ------------------------------------------------------------------------
\* Module replacers
\* ------------------------------------------------------------------------

Replacers2d == {"C2f", "Detect", "Segment"}

\* The old_module each replacer passes to replace_2d_deg_module.
OldModule(r) == r

\* C2fModuleReplacer.get_config: [c1, c2, n, shortcut, g, e], or the exception
\* of the first next() that finds no child.
C2fGetConfig(c) ==
    IF c.cv1 = <<>> \/ c.cv2 = <<>> \/ c.m = <<>> THEN [err |-> StopIteration, config |-> <<>>]
    ELSE IF c.m[1].kids = <<>> THEN [err |-> StopIteration, config |-> <<>>]
    ELSE IF c.m[1].kids[1] = <<>> THEN [err |-> StopIteration, config |-> <<>>]
    ELSE LET c1 == c.cv1[1].in_channels
             c2 == c.cv1[1].out_channels
             cc == c.c
             n == (c.cv2[1].in_channels \div cc) - 2
             e == <<cc, c2>>
             g == c.m[1].kids[1][1].groups
             shortcut == c.m[1].add
         IN  [err |-> NoErr, config |-> <<c1, c2, n, shortcut, g, e>>]

\* A branch x of c.cv2 on which next(next(x.children()).children()) finds no child.
BadBranch(x) == x = <<>> \/ x[1] = <<>>

\* The list comprehension of DetectModuleReplacer.get_config and
\* SegmentModuleReplacer.get_config over c.cv2.children().
BranchChannels(c) ==
    IF \E k \in 1..Len(c.dcv2) : BadBranch(c.dcv2[k])
    THEN [err |-> StopIteration, ch |-> <<>>]
    ELSE [err |-> NoErr, ch |-> [k \in 1..Len(c.dcv2) |-> c.dcv2[k][1][1].in_channels]]

\* DetectModuleReplacer.get_config: [nc, ch].
DetectGetConfig(c) ==
    LET b == BranchChannels(c)
    IN  [err |-> b.err, config |-> IF b.err = NoErr THEN <<c.nc, b.ch>> ELSE <<>>]

\* SegmentModuleReplacer.get_config: [nc, nm, npr, ch].
SegmentGetConfig(c) ==
    LET b == BranchChannels(c)
    IN  [err |-> b.err, config |-> IF b.err = NoErr THEN <<c.nc, c.nm, c.npr, b.ch>> ELSE <<>>]

get_config(r, c) ==
    CASE r = "C2f" -> C2fGetConfig(c)
      [] r = "Detect" -> DetectGetConfig(c)
      [] r = "Segment" -> SegmentGetConfig(c)

get_new_module(r, config) ==
    CASE r = "C2f" -> C2fInit("C2fReplacer", config)
      [] r = "Detect" -> DetectInit("DetectReplacer", config)
      [] r = "Segment" -> SegmentInit("SegmentReplacer", config)

\* CopyMeta without the setattr of f.
CopyMetaWithoutF(l, c) == [l EXCEPT !.i = c.i, !.tname = c.tname]

\* The three setattr calls that copy f, i and type from the displaced module.
CopyMeta(l, c) == [l EXCEPT !.f = c.f, !.i = c.i, !.tname = c.tname]

\* The depth-2 positions <<top-level child, child>> in the order of the two
\* nested named_children() loops.
RECURSIVE PositionsFrom(_, _, _)
PositionsFrom(tr, t, k) ==
    IF t > Len(tr) THEN <<>>
    ELSE IF k > Len(tr[t].kids) THEN PositionsFrom(tr, t + 1, 1)
    ELSE <<<<t, k>>>> \o PositionsFrom(tr, t, k + 1)

\* Positions that stops after the first top-level child.
PositionsOfFirstChild(tr) == SelectSeq(PositionsFrom(tr, 1, 1), LAMBDA p : p[1] = 1)

Positions(tr) == PositionsFrom(tr, 1, 1)

\* The body of the loops of replace_2d_deg_module over the positions ps still
\* to visit; an exception of get_config ends the call with the tree as it is.
RECURSIVE Walk(_, _, _, _)
Walk(tr, r, ps, built) ==
    IF ps = <<>> THEN [tree |-> tr, err |-> NoErr, built |-> built]
    ELSE LET p == Head(ps)
             c == tr[p[1]].kids[p[2]]
         IN  IF IsInstance(c.type, OldModule(r))
             THEN LET cfg == get_config(r, c)
                  IN  IF cfg.err # NoErr
                      THEN [tree |-> tr, err |-> cfg.err, built |-> built]
                      ELSE LET l == CopyMeta(get_new_module(r, cfg.config), c)
                           IN  Walk([tr EXCEPT ![p[1]].kids[p[2]] = l], r, Tail(ps), built + 1)
             ELSE Walk(tr, r, Tail(ps), built)

replace_2d_deg_module(tr, r) == Walk(tr, r, Positions(tr), 0)

\* DetectionModelReplacer(c.yaml): the whole model is parsed again from its
\* yaml, every module constructed anew.
DetectionModelInit(y) ==
    [t \in 1..Len(y) |->
        [y[t] EXCEPT !.kids = [k \in 1..Len(y[t].kids) |-> [y[t].kids[k] EXCEPT !.w = "init"]]]]

\* ------------------------------------------------------------------------
\* Models the replacers are run on
\* ------------------------------------------------------------------------

\* C2f(4, 4, n=1, shortcut=True, g=1, e=0.5) as loaded from a checkpoint.
GoodC2f == [C2fInit("C2f", <<4, 4, 1, TRUE, 1, <<1, 2>>>>) EXCEPT !.w = "trained"]

\* C2f(4, 4, n=0): its ModuleList m is empty.
EmptyC2f == [C2fInit("C2f", <<4, 4, 0, TRUE, 1, <<1, 2>>>>) EXCEPT !.w = "trained"]

GoodDetect == [DetectInit("Detect", <<1, <<4, 8>>>>) EXCEPT !.w = "trained"]

GoodSegment == [SegmentInit("Segment", <<1, 2, 4, <<4, 8>>>>) EXCEPT !.w = "trained"]

\* A Detect whose second cv2 branch is a Sequential without children.
EmptyBranchDetect == [GoodDetect EXCEPT !.dcv2[2] = <<>>]

\* A container of another type that holds a C2f one level further down.
Wrapper == [BlankNode EXCEPT !.type = "Sequential", !.w = "trained", !.sub = <<"C2f">>]

Templates == {GoodC2f, EmptyC2f, GoodDetect, EmptyBranchDetect, GoodSegment, Wrapper}

\* parse_model gives every layer its f, i and type.
MetaOf(n, i) ==
    [n EXCEPT !.f = IF IsInstance(n.type, "Detect") THEN <<-1, 0>> ELSE <<-1>>,
              !.i = i,
              !.tname = "ultralytics.nn.modules." \o n.type]

KidSeqs(n) == [1..n -> Templates]

\* A model: two top-level children, a Sequential and a module that is itself
\* a Detect, with the depth-2 modules shared out between them.
ModelOf(ka, kb) ==
    <<[type |-> "Sequential", kids |-> [k \in 1..Len(ka) |-> MetaOf(ka[k], k)]],
      [type |-> "Detect", kids |-> [k \in 1..Len(kb) |-> MetaOf(kb[k], Len(ka) + k)]]>>

Models ==
    UNION {{ModelOf(ka, kb) : ka \in KidSeqs(a), kb \in KidSeqs(n - a)} :
              <<a, n>> \in {<<x, y>> \in (0..MaxNodes) \X (1..MaxNodes) : x <= y}}

\* ------------------------------------------------------------------------
\* Specification of the replacers
\* ------------------------------------------------------------------------

NoCall == [replacer |-> "none", err |-> NoErr, built |-> 0, again |-> FALSE]

ReplaceInit ==
    /\ tree \in Models
    /\ yaml = tree
    /\ before = tree
    /\ lastCall = NoCall

ReplaceIdle ==
    /\ tree = <<>>
    /\ yaml = <<>>
    /\ before = <<>>
    /\ lastCall = NoCall

\* <Replacer>.replace(model) for the three replacers of depth-2 modules.
Replace(r) ==
    LET res == replace_2d_deg_module(tree, r)
    IN  /\ tree' = res.tree
        /\ before' = tree
        /\ lastCall' = [replacer |-> r, err |-> res.err, built |-> res.built,
                        again |-> lastCall.replacer = r /\ lastCall.err = NoErr]
        /\ UNCHANGED <<yaml, bridgeVars, valVars, forwardVars>>

\* model = DetectionModelModuleReplacer().replace(model)
ReplaceDetectionModel ==
    /\ tree' = DetectionModelInit(yaml)
    /\ before' = tree
    /\ lastCall' = [replacer |-> "DetectionModel", err |-> NoErr,
                    built |-> 1,
                    again |-> lastCall.replacer = "DetectionModel"]
    /\ UNCHANGED <<yaml, bridgeVars, valVars, forwardVars>>

\* ------------------------------------------------------------------------
\* Tensor conversion (utils.py)
\* ------------------------------------------------------------------------

\* A value handed to or returned by the conversions: an array, a tensor, a
\* list, a tuple, a generator object or a raised exception.
Value(kind, dtype, val, items) == [kind |-> kind, dtype |-> dtype, val |-> val, items |-> items]

Unset == Value("unset", "", 0, <<>>)

NdArray(dtype, val) == Value("ndarray", dtype, val, <<>>)

\* An exception of the named class leaving the call.
Raised(name) == Value("raised", name, 0, <<>>)

RaisedException == Raised("Exception")

\* The nearest float32 to a non-negative integer below 2^25: exact up to 2^24,
\* then the nearest even integer, ties to the even mantissa.
Float32(v) ==
    IF v <= 16777216 \/ v % 2 = 0 THEN v
    ELSE IF ((v - 1) \div 2) % 2 = 0 THEN v - 1 ELSE v + 1

RECURSIVE to_torch_tensor(_)
to_torch_tensor(t) ==
    CASE t.kind = "Tensor" -> t
      [] t.kind = "list" ->
            LET rs == [k \in 1..Len(t.items) |-> to_torch_tensor(t.items[k])]
            IN  IF \E k \in 1..Len(rs) : rs[k].kind = "raised"
                THEN RaisedException
                ELSE Value("list", "", 0, rs)
      [] t.kind = "tuple" ->
            \* a generator expression: an unevaluated generator over the items
            Value("generator", "", 0, t.items)
      [] t.kind = "ndarray" -> Value("Tensor", "float32", Float32(t.val), <<>>)
      [] OTHER -> RaisedException

RECURSIVE torch_tensor_to_numpy(_)
torch_tensor_to_numpy(t) ==
    CASE t.kind = "ndarray" -> t
      [] t.kind \in {"list", "tuple"} ->
            LET rs == [k \in 1..Len(t.items) |-> torch_tensor_to_numpy(t.items[k])]
            IN  IF \E k \in 1..Len(rs) : rs[k].kind = "raised"
                THEN RaisedException
                ELSE Value(t.kind, "", 0, rs)
      [] t.kind = "Tensor" -> Value("ndarray", t.dtype, t.val, <<>>)
      [] OTHER -> RaisedException

\* Host arrays: a float32 array and a float64 array whose value float32 cannot hold.
Arrays == {NdArray("float32", 1), NdArray("float64", 16777217)}

\* Lists and tuples of at most MaxLen members of S.
Containers(S) ==
    {Value(kind, "", 0, items) :
        kind \in {"list", "tuple"}, items \in UNION {[1..n -> S] : n \in 0..MaxLen}}

Nested1 == Arrays \cup Containers(Arrays)

HostStructures == Nested1 \cup Containers(Nested1)

BridgeInit ==
    /\ host \in HostStructures
    /\ dev = Unset
    /\ back = Unset

BridgeIdle ==
    /\ host = Unset
    /\ dev = Unset
    /\ back = Unset

\* dev = to_torch_tensor(host)
ToTorchTensor ==
    /\ host # Unset
    /\ dev = Unset
    /\ dev' = to_torch_tensor(host)
    /\ UNCHANGED <<host, back, replaceVars, valVars, forwardVars>>

\* back = torch_tensor_to_numpy(dev)
TorchTensorToNumpy ==
    /\ dev # Unset
    /\ dev.kind # "raised"
    /\ back = Unset
    /\ back' = torch_tensor_to_numpy(dev)
    /\ UNCHANGED <<host, dev, replaceVars, valVars, forwardVars>>

\* ------------------------------------------------------------------------
\* YOLOReplacer.val
\* ------------------------------------------------------------------------

\* dict.update: the entries of d2 over those of d1.
Update(d1, d2) ==
    [k \in DOMAIN d1 \cup DOMAIN d2 |-> IF k \in DOMAIN d2 THEN d2[k] ELSE d1[k]]

\* The keys of DEFAULT_CFG that val reads, with their default values.
DEFAULT_CFG == [imgsz |-> DefaultImgsz, task |-> "detect", rect |-> FALSE, mode |-> "train"]

\* get_cfg(cfg=DEFAULT_CFG, overrides=overrides): the defaults with the overrides over them.
get_cfg(cfg, overrides) == Update(cfg, overrides)

\* check_imgsz(imgsz, max_dim=1): imgsz rounded up to a multiple of the stride.
check_imgsz(imgsz) == ((imgsz + ImgszStride - 1) \div ImgszStride) * ImgszStride

\* TASK_MAP[task][2] after the two assignments at import time.
Validator(task) ==
    CASE task = "detect" -> "DetectionValidatorReplacer"
      [] task = "segment" -> "SegmentationValidatorReplacer"
      [] OTHER -> "ClassificationValidator"

\* What val computes from the object and the kwargs: the args handed to the
\* validator, the validator class and the task the object is left with.
val(y, kwargs) ==
    LET o1 == Update(y.overrides, [rect |-> FALSE])
        o2 == Update(o1, kwargs)
        overrides == Update(o2, [mode |-> "val"])
        a0 == get_cfg(DEFAULT_CFG, overrides)
        task == IF "task" \in DOMAIN overrides THEN a0.task ELSE y.task
        a1 == [a0 EXCEPT !.task = task]
        a2 == IF a1.imgsz = DEFAULT_CFG.imgsz /\ y.model.loaded
              THEN [a1 EXCEPT !.imgsz = y.model.imgsz]
              ELSE a1
        args == [a2 EXCEPT !.imgsz = check_imgsz(a2.imgsz)]
    IN  [args |-> args, task |-> task, validator |-> Validator(task)]

ImageSizes == {320, DefaultImgsz}

\* The subsets of the entries of a dict.
SubDicts(d) == {[k \in K |-> d[k]] : K \in SUBSET DOMAIN d}

\* A YOLO object: either its model is still a path (nothing loaded, no
\* overrides) or it was loaded from a checkpoint, whose imgsz and task are
\* the overrides.
YoloObjects ==
    {[overrides |-> <<>>, task |-> t, model |-> [loaded |-> FALSE, imgsz |-> 0, prepared |-> FALSE]] :
        t \in {"detect", "segment"}}
    \cup
    {[overrides |-> [imgsz |-> sz, task |-> t], task |-> t,
      model |-> [loaded |-> TRUE, imgsz |-> sz, prepared |-> FALSE]] :
        t \in {"detect", "segment", "classify"}, sz \in ImageSizes}

KwargsSets ==
    UNION {SubDicts([imgsz |-> sz, task |-> t, rect |-> TRUE]) :
              sz \in ImageSizes \cup {100}, t \in {"detect", "segment"}}

NoValCall == [called |-> FALSE, kwargs |-> <<>>, args |-> <<>>, validator |-> ""]

ValInit ==
    /\ yolo \in YoloObjects
    /\ valCall = NoValCall

ValIdle ==
    /\ yolo = [overrides |-> <<>>, task |-> "detect",
               model |-> [loaded |-> FALSE, imgsz |-> 0, prepared |-> FALSE]]
    /\ valCall = NoValCall

\* yolo.val(**kwargs)
Val(kwargs) ==
    LET res == val(yolo, kwargs)
    IN  /\ yolo' = [yolo EXCEPT !.task = res.task]
        /\ valCall' = [called |-> TRUE, kwargs |-> kwargs, args |-> res.args,
                       validator |-> res.validator]
        /\ UNCHANGED <<replaceVars, bridgeVars, forwardVars>>

\* prepare_model_for_ultralytics_val(yolo, model): the replaced model takes
\* the args of the loaded one and becomes the object's model.
PrepareModelForUltralyticsVal ==
    /\ yolo.model.loaded
    /\ ~yolo.model.prepared
    /\ yolo' = [yolo EXCEPT !.model.prepared = TRUE]
    /\ UNCHANGED <<valCall, replaceVars, bridgeVars, forwardVars>>

\* ------------------------------------------------------------------------
\* Forward passes of the replaced heads and the validators' postprocess
\* ------------------------------------------------------------------------
\* A tensor of shape (batch, channels, anchors) is the sequence, over the
\* anchors, of its channel vectors; the batch is one image.  The box channels
\* of an anchor are four groups of reg_max logits, held as the channel at which
\* each group peaks; coordinates are kept in half pixels, so that the anchor
\* centres x + 0.5 stay integers.

Tensor(data) == Value("Tensor", "float32", 0, data)

List(items) == Value("list", "", 0, items)

Tuple(items) == Value("tuple", "", 0, items)

RECURSIVE Pow2(_)
Pow2(n) == IF n = 0 THEN 1 ELSE 2 * Pow2(n - 1)

\* model.stride of a head with nl scales: [8, 16, 32] for three.
Strides(nl) == [k \in 1..nl |-> 8 * Pow2(k - 1)]

\* The (h, w) of the feature map each scale receives for an image of h x w.
FeatureShapes(h) ==
    [k \in 1..h.nl |-> <<h.height \div Strides(h.nl)[k], h.width \div Strides(h.nl)[k]>>]

\* cat(cv2[k](x[k]), cv3[k](x[k])) at row r, column c of scale k: the box
\* logits (the peak channel of each of the four groups) and the class logit.
Cell(seed, k, r, c) ==
    [box |-> [j \in 1..4 |-> (j - 1) * (BoxCh \div 4) + ((seed + k + r + c + j) % 3)],
     cls |-> ((seed + r + c) % 3) - 1]

\* cv4[k](x[k]) at row r, column c of scale k: the mask coefficient.
MaskCell(seed, k, r, c) == (seed + k + c) % 2

\* x[k] after the loop of Detect.forward, flattened row by row.
ScaleTensor(h, k) ==
    LET hw == FeatureShapes(h)[k]
    IN  Tensor([n \in 1..(hw[1] * hw[2]) |->
                   Cell(h.seed, k, (n - 1) \div hw[2], (n - 1) % hw[2])])

MaskTensor(h, k) ==
    LET hw == FeatureShapes(h)[k]
    IN  [n \in 1..(hw[1] * hw[2]) |->
            MaskCell(h.seed, k, (n - 1) \div hw[2], (n - 1) % hw[2])]

\* torch.cat of a list of sequences along their last dimension.
RECURSIVE Cat(_)
Cat(ss) == IF ss = <<>> THEN <<>> ELSE Head(ss) \o Cat(Tail(ss))

\* self.dfl(box): the expected bin of each of the four groups.
Dfl(box) == [j \in 1..4 |-> box[j] % (BoxCh \div 4)]

\* sigmoid of a class logit, in thousandths.
Sigmoid(v) == IF v < 0 THEN 269 ELSE IF v = 0 THEN 500 ELSE 731

\* DetectReplacer.forward(x)
DetectReplacerForward(h) ==
    LET x == [k \in 1..h.nl |-> ScaleTensor(h, k)]
        x_cat == Cat([k \in 1..h.nl |-> x[k].items])
        y_cls == Tensor([a \in 1..Len(x_cat) |-> Sigmoid(x_cat[a].cls)])
        y_bb == Tensor([a \in 1..Len(x_cat) |-> Dfl(x_cat[a].box)])
    IN  IF h.training THEN List(x) ELSE Tuple(<<y_bb, y_cls>>)

\* self.proto(x[0]): the prototype masks, one per image.
Proto(h) == Tensor(<<[proto |-> h.seed, shape |-> FeatureShapes(h)[1]]>>)

\* SegmentReplacer.forward(x)
SegmentReplacerForward(h) ==
    LET p == Proto(h)
        mc == Tensor(Cat([k \in 1..h.nl |-> MaskTensor(h, k)]))
        d == DetectReplacerForward(h)
    IN  IF Len(d.items) # 2 THEN Raised("ValueError")
        ELSE LET y_bb == d.items[1]
                 y_cls == d.items[2]
             IN  IF h.training THEN Tuple(<<Tuple(<<y_bb, y_cls>>), mc, p>>)
                 ELSE Tuple(<<y_bb, y_cls, mc, p>>)

forward(h) ==
    IF h.kind = "DetectReplacer" THEN DetectReplacerForward(h) ELSE SegmentReplacerForward(h)

\* The anchor centres (in half pixels) and strides of one feature map.
AnchorsOf(hw, stride) ==
    [n \in 1..(hw[1] * hw[2]) |->
        [point |-> <<2 * ((n - 1) % hw[2]) + 1, 2 * ((n - 1) \div hw[2]) + 1>>,
         stride |-> stride]]

\* make_anchors(feats, strides, 0.5): one feature map is read per stride.
make_anchors(shapes, strides) ==
    IF Len(strides) > Len(shapes) THEN [err |-> "IndexError", anchors |-> <<>>]
    ELSE [err |-> "", anchors |-> Cat([k \in 1..Len(strides) |-> AnchorsOf(shapes[k], strides[k])])]

\* dist2bbox(distance, anchor, xywh=True) * stride for one anchor, in half pixels.
Decode(d, a) ==
    <<(a.point[1] + d[3] - d[1]) * a.stride,
      (a.point[2] + d[4] - d[2]) * a.stride,
      2 * (d[1] + d[3]) * a.stride,
      2 * (d[2] + d[4]) * a.stride>>

\* Two sizes of the anchor dimension that broadcast against each other.
Broadcasts(n, m) == n = m \/ n = 1 \/ m = 1

\* The first part of both postprocess methods: the anchors of the square grids
\* imgsz / stride of three scales, and the boxes decoded against them.
DecodedBoxes(h, y_bb) ==
    LET stride == Strides(h.nl)
        grid == [k \in 1..h.nl |-> h.imgsz \div stride[k]]
    IN  IF h.nl < 3 THEN [err |-> "IndexError", dbox |-> <<>>]
        ELSE LET x_dummy == <<<<grid[1], grid[1]>>, <<grid[2], grid[2]>>, <<grid[3], grid[3]>>>>
                 made == make_anchors(x_dummy, stride)
                 a == made.anchors
                 n == Len(y_bb.items)
             IN  IF made.err # "" THEN [err |-> made.err, dbox |-> <<>>]
                 ELSE IF ~Broadcasts(n, Len(a)) THEN [err |-> "RuntimeError", dbox |-> <<>>]
                 ELSE [err |-> "",
                       dbox |-> [j \in 1..(IF n > Len(a) THEN n ELSE Len(a)) |->
                                    Decode(y_bb.items[IF n = 1 THEN 1 ELSE j],
                                           a[IF Len(a) = 1 THEN 1 ELSE j])]]

\* DetectionValidatorReplacer.postprocess(preds), up to the call of the
\* postprocess it overrides.
DetectionPostprocess(h, preds) ==
    LET dec == DecodedBoxes(h, preds.items[1])
        y_cls == preds.items[2]
    IN  IF dec.err # "" THEN Raised(dec.err)
        ELSE IF Len(dec.dbox) # Len(y_cls.items) THEN Raised("RuntimeError")
        ELSE Tensor([a \in 1..Len(dec.dbox) |->
                        [box |-> dec.dbox[a], cls |-> y_cls.items[a], mc |-> 0]])

\* SegmentationValidatorReplacer.postprocess(preds), up to the call of the
\* postprocess it overrides.
SegmentationPostprocess(h, preds) ==
    LET y_bb == preds.items[1]
        y_cls == preds.items[2]
        masks_coeffs == preds.items[3]
        proto == preds.items[4]
        dec == DecodedBoxes(h, y_bb)
    IN  IF dec.err # "" THEN Raised(dec.err)
        ELSE IF Len(dec.dbox) # Len(y_cls.items) THEN Raised("RuntimeError")
        ELSE Tuple(<<Tensor([a \in 1..Len(dec.dbox) |->
                               [box |-> dec.dbox[a], cls |-> y_cls.items[a],
                                mc |-> masks_coeffs.items[a]]]),
                     Tuple(<<y_cls, masks_coeffs, proto>>)>>)

postprocess(h, preds) ==
    IF h.kind = "DetectReplacer" THEN DetectionPostprocess(h, preds)
    ELSE SegmentationPostprocess(h, preds)

\* Detect.forward(x) of the head DetectReplacer replaces, not exporting: the
\* anchors come from the feature maps themselves.
DetectForward(h) ==
    LET x == [k \in 1..h.nl |-> ScaleTensor(h, k)]
        x_cat == Cat([k \in 1..h.nl |-> x[k].items])
        a == make_anchors(FeatureShapes(h), Strides(h.nl)).anchors
        y == Tensor([j \in 1..Len(x_cat) |->
                        [box |-> Decode(Dfl(x_cat[j].box), a[j]),
                         cls |-> Sigmoid(x_cat[j].cls), mc |-> 0]])
    IN  IF h.training THEN List(x) ELSE Tuple(<<y, List(x)>>)

\* Segment.forward(x) of the head SegmentReplacer replaces, not exporting.
SegmentForward(h) ==
    LET p == Proto(h)
        mc == Tensor(Cat([k \in 1..h.nl |-> MaskTensor(h, k)]))
        x == DetectForward(h)
    IN  IF h.training THEN Tuple(<<x, mc, p>>)
        ELSE LET y == x.items[1].items
             IN  Tuple(<<Tensor([j \in 1..Len(y) |-> [y[j] EXCEPT !.mc = mc.items[j]]]),
                         Tuple(<<x.items[2], mc, p>>)>>)

original_forward(h) ==
    IF h.kind = "DetectReplacer" THEN DetectForward(h) ELSE SegmentForward(h)

\* The heads, modes and inputs: two to four scales, images and validator
\* image sizes that are multiples of the largest stride.
Heads ==
    {[kind |-> kind, training |-> tr, nl |-> nl, height |-> hh, width |-> ww,
      imgsz |-> sz, seed |-> seed] :
        kind \in {"DetectReplacer", "SegmentReplacer"}, tr \in BOOLEAN,
        nl \in 2..3, hh \in {32, 64}, ww \in {32, 64}, sz \in {32, 64}, seed \in 0..1}
    \cup
    {[kind |-> kind, training |-> tr, nl |-> 4, height |-> 64, width |-> 64,
      imgsz |-> 64, seed |-> seed] :
        kind \in {"DetectReplacer", "SegmentReplacer"}, tr \in BOOLEAN, seed \in 0..1}

NoHead ==
    [kind |-> "none", training |-> FALSE, nl |-> 0, height |-> 0, width |-> 0,
     imgsz |-> 0, seed |-> 0]

ForwardInit ==
    /\ head \in Heads
    /\ fout = Unset
    /\ frec = Unset
    /\ forig = Unset

ForwardIdle ==
    /\ head = NoHead
    /\ fout = Unset
    /\ frec = Unset
    /\ forig = Unset

\* fout = head(x) with the replaced head
VariantForward ==
    /\ head # NoHead
    /\ fout = Unset
    /\ fout' = forward(head)
    /\ UNCHANGED <<head, frec, forig, replaceVars, bridgeVars, valVars>>

\* frec = validator.postprocess(fout), on the output of an inference forward
Postprocess ==
    /\ fout # Unset
    /\ fout.kind # "raised"
    /\ ~head.training
    /\ frec = Unset
    /\ frec' = postprocess(head, fout)
    /\ UNCHANGED <<head, fout, forig, replaceVars, bridgeVars, valVars>>

\* forig = head(x) with the head that was replaced
OriginalForward ==
    /\ head # NoHead
    /\ forig = Unset
    /\ forig' = original_forward(head)
    /\ UNCHANGED <<head, fout, frec, replaceVars, bridgeVars, valVars>>

\* ------------------------------------------------------------------------
\* Specifications
\* ------------------------------------------------------------------------

Init == ReplaceInit /\ BridgeIdle /\ ValIdle /\ ForwardIdle

Next ==
    \/ \E r \in Replacers2d : Replace(r)
    \/ ReplaceDetectionModel

Spec == Init /\ [][Next]_vars

BridgeSpecInit == ReplaceIdle /\ BridgeInit /\ ValIdle /\ ForwardIdle

BridgeNext == ToTorchTensor \/ TorchTensorToNumpy

BridgeSpec == BridgeSpecInit /\ [][BridgeNext]_vars

ValSpecInit == ReplaceIdle /\ BridgeIdle /\ ValInit /\ ForwardIdle

ValNext ==
    \/ \E kwargs \in KwargsSets : Val(kwargs)
    \/ PrepareModelForUltralyticsVal

ValSpec == ValSpecInit /\ [][ValNext]_vars

ForwardSpecInit == ReplaceIdle /\ BridgeIdle /\ ValIdle /\ ForwardInit

ForwardNext == VariantForward \/ Postprocess \/ OriginalForward

ForwardSpec == ForwardSpecInit /\ [][ForwardNext]_vars

\* ------------------------------------------------------------------------
\* Claims about the replacers
\* ------------------------------------------------------------------------

Completed2d == lastCall.replacer \in Replacers2d /\ lastCall.err = NoErr

ReplaceRaised == lastCall.err # NoErr

SameShape ==
    /\ Len(tree) = Len(before)
    /\ \A t \in 1..Len(before) : Len(tree[t].kids) = Len(before[t].kids)

\* A module without its f, i and type attributes.
StripMeta(n) == [n EXCEPT !.f = <<>>, !.i = -1, !.tname = ""]

\* C1: after replace_2d_deg_module(model, old_type, build, extract_config)
\* returns, the tree has the shape of the input, every top-level child is as it
\* was, every depth-2 module that is an instance of old_type holds
\* build(extract_config(module)) under the same name, and every other depth-2
\* module, with all it contains, is as it was.
C1_ReplacesDepth2Matches ==
    Completed2d =>
        /\ SameShape
        /\ \A t \in 1..Len(before) :
              /\ tree[t].type = before[t].type
              /\ \A k \in 1..Len(before[t].kids) :
                    LET c == before[t].kids[k]
                    IN  IF IsInstance(c.type, OldModule(lastCall.replacer))
                        THEN LET cfg == get_config(lastCall.replacer, c)
                             IN  /\ cfg.err = NoErr
                                 /\ StripMeta(tree[t].kids[k]) =
                                        get_new_module(lastCall.replacer, cfg.config)
                        ELSE tree[t].kids[k] = c

\* A Detect replacement has returned: matches under both top-level children were
\* rebuilt, the top-level Detect and a C2f held one level too deep are still there.
C1_Witness ==
    /\ Completed2d
    /\ lastCall.replacer = "Detect"
    /\ tree[2].type = "Detect"
    /\ \E k \in 1..Len(tree[1].kids) : tree[1].kids[k].type = "DetectReplacer"
    /\ \E k \in 1..Len(tree[2].kids) :
          /\ before[2].kids[k].type = "Segment"
          /\ tree[2].kids[k].type = "DetectReplacer"
    /\ \E k \in 1..Len(tree[1].kids) : tree[1].kids[k].sub = <<"C2f">>

\* C2: whatever a replacer is run on, and whether it returns or raises, every
\* module of the tree carries the f, i and type of the module that was at its
\* place before the call.
C2_MetadataPreserved ==
    lastCall.replacer # "none" =>
        /\ SameShape
        /\ \A t \in 1..Len(before) : \A k \in 1..Len(before[t].kids) :
              /\ tree[t].kids[k].f = before[t].kids[k].f
              /\ tree[t].kids[k].i = before[t].kids[k].i
              /\ tree[t].kids[k].tname = before[t].kids[k].tname

\* A replaced module with a list-valued f next to a module left alone.
C2_Witness ==
    /\ Completed2d
    /\ \E t \in 1..Len(tree) : \E k \in 1..Len(tree[t].kids) :
          /\ tree[t].kids[k].type = "SegmentReplacer"
          /\ before[t].kids[k].type = "Segment"
          /\ tree[t].kids[k].f = <<-1, 0>>
          /\ tree[t].kids[k].tname = "ultralytics.nn.modules.Segment"
    /\ \E t \in 1..Len(tree) : \E k \in 1..Len(tree[t].kids) :
          tree[t].kids[k] = before[t].kids[k]

\* C4: after a replacer of depth-2 modules has returned, every module, the
\* replacements included, holds the parameters of the module that was at its
\* place before the call.
C4_WeightsCarriedOver ==
    Completed2d =>
        \A t \in 1..Len(before) : \A k \in 1..Len(before[t].kids) :
            tree[t].kids[k].w = before[t].kids[k].w

\* C5: a replacer of depth-2 modules run again on the model it has just
\* returned matches nothing: it builds no module and leaves the tree as it is.
C5_SecondRunChangesNothing ==
    (Completed2d /\ lastCall.again) => (lastCall.built = 0 /\ tree = before)

\* C6: when a replacer raises, the tree is the tree from before the call.
C6_NoPartialReplacement ==
    ReplaceRaised => tree = before

\* The depth-2 modules that the replacer of the last call matches and whose
\* configuration cannot be extracted.
Offenders ==
    {p \in {<<t, k>> : t \in 1..Len(before), k \in 1..MaxNodes} :
        /\ p[2] <= Len(before[p[1]].kids)
        /\ IsInstance(before[p[1]].kids[p[2]].type, OldModule(lastCall.replacer))
        /\ get_config(lastCall.replacer, before[p[1]].kids[p[2]]).err # NoErr}

\* C7: the error a replacer raises on a module whose structure get_config
\* cannot walk is a configuration-extraction error that carries the type and
\* the position of that module.
C7_ErrorNamesNode ==
    ReplaceRaised =>
        /\ lastCall.err.kind = "ConfigExtractionError"
        /\ \E p \in Offenders :
              lastCall.err.args = <<before[p[1]].kids[p[2]].tname, p>>

\* ------------------------------------------------------------------------
\* Claims about the tensor conversion
\* ------------------------------------------------------------------------

\* A structure of arrays with every array cast to float32 (the documented downcast).
RECURSIVE AsFloat32(_)
AsFloat32(t) ==
    IF t.kind = "ndarray" THEN NdArray("float32", Float32(t.val))
    ELSE Value(t.kind, "", 0, [k \in 1..Len(t.items) |-> AsFloat32(t.items[k])])

\* C9: the round trip torch_tensor_to_numpy(to_torch_tensor(a)) ends without
\* an exception and returns a, up to the float32 downcast of its arrays: the
\* same nesting, the same container kind at every level and the same arrays.
C9_RoundTrip ==
    back # Unset => (back.kind # "raised" /\ back = AsFloat32(host))

\* ------------------------------------------------------------------------
\* Claims about val
\* ------------------------------------------------------------------------

\* C8: the image size val hands to the validator is (rounded up to the stride)
\* the imgsz of the call when one is passed, else the imgsz stored with the
\* loaded model, else the default.
C8_ImgszPrecedence ==
    valCall.called =>
        valCall.args.imgsz =
            check_imgsz(IF "imgsz" \in DOMAIN valCall.kwargs THEN valCall.kwargs.imgsz
                        ELSE IF yolo.model.loaded THEN yolo.model.imgsz
                        ELSE DEFAULT_CFG.imgsz)

\* ------------------------------------------------------------------------
\* Claims about the forward passes
\* ------------------------------------------------------------------------

\* The merged prediction tensor of an inference output, and with it the
\* prototype masks of a segmentation output.
Merged(h, out) ==
    IF h.kind = "DetectReplacer"
    THEN <<IF out.kind = "tuple" THEN out.items[1] ELSE out>>
    ELSE <<out.items[1], out.items[2].items[3]>>

\* C3: in inference, for a head of three scales and any input, postprocess
\* applied to what the replaced head returns ends without an exception and
\* yields the merged predictions (decoded boxes, class scores, mask
\* coefficients, prototypes) of the original head.
C3_ReconstructionEqualsOriginal ==
    (frec # Unset /\ head.nl = 3) =>
        /\ frec.kind # "raised"
        /\ forig # Unset => Merged(head, frec) = Merged(head, forig)

\* The per-scale detection output of a training output.
TrainingScales(h, out) ==
    IF h.kind = "DetectReplacer" THEN out.items ELSE out.items[1].items

\* C10: in training mode the replaced head's forward ends without an
\* exception and returns the per-scale tensors of the original head, with the
\* mask coefficients and the prototypes for a segmentation head.
C10_TrainingUnchanged ==
    (head.training /\ fout # Unset) =>
        /\ fout.kind # "raised"
        /\ Len(TrainingScales(head, fout)) = head.nl
        /\ forig # Unset =>
              /\ TrainingScales(head, fout) = TrainingScales(head, forig)
              /\ head.kind = "SegmentReplacer" =>
                    (fout.items[2] = forig.items[2] /\ fout.items[3] = forig.items[3])

====
